---- MODULE Spec2Model ----
(***************************************************************************)
(* Model of prefect.tasks.docker.images: the five Docker image tasks       *)
(* (ListImages, PullImage, PushImage, RemoveImage, TagImage).  Each task   *)
(* stores its constructor arguments as attributes; run() is wrapped by     *)
(* defaults_from_attrs, validates the required arguments, constructs a     *)
(* docker.APIClient and issues one client call.                            *)
(*                                                                         *)
(* Python values are encoded as strings: None, the booleans True / False,  *)
(* and str objects ("" is the empty str).  Unset marks a keyword argument  *)
(* that the caller did not supply.                                         *)
(***************************************************************************)
EXTENDS Naturals, Sequences, FiniteSets, TLC

None == "<None>"
Unset == "<unset>"
PyTrue == "True"
PyFalse == "False"
DefaultURL == "unix:///var/run/docker.sock"
TcpURL == "tcp://0.0.0.0:2375"

\* Bounds on the inputs: how many keyword arguments a constructor call and a
\* run call supply.
MaxCtorArgs == 2
MaxOverrides == 2
\* Bound on the number of run invocations in one behaviour.
MaxRuns == 2

Kinds == {"ListImages", "PullImage", "PushImage", "RemoveImage", "TagImage"}

\* The attribute names of each task, as listed in its defaults_from_attrs.
Fields(k) ==
  CASE k = "ListImages" -> {"repository_name", "all_layers", "docker_server_url"}
    [] k = "PullImage" -> {"repository", "tag", "docker_server_url"}
    [] k = "PushImage" -> {"repository", "tag", "docker_server_url"}
    [] k = "RemoveImage" -> {"image", "force", "docker_server_url"}
    [] k = "TagImage" -> {"image", "repository", "tag", "force", "docker_server_url"}

\* Annotated type of a parameter.
FieldType(f) ==
  CASE f \in {"all_layers", "force"} -> "bool"
    [] f = "docker_server_url" -> "url"
    [] OTHER -> "str"

\* Variant: the __init__ signatures default docker_server_url to the TCP example.
InitDefault_tcp(k, f) ==
  CASE FieldType(f) = "bool" -> PyFalse
    [] FieldType(f) = "url" -> TcpURL
    [] OTHER -> None

\* Default of parameter f in the signature of k.__init__.
InitDefault(k, f) ==
  CASE FieldType(f) = "bool" -> PyFalse
    [] FieldType(f) = "url" -> DefaultURL
    [] OTHER -> None

\* Default of parameter f in the signature of k.run.
RunDefault(k, f) ==
  CASE FieldType(f) = "bool" -> PyFalse
    [] FieldType(f) = "url" -> DefaultURL
    [] OTHER -> None

\* Python binds a keyword argument if supplied, the signature default if not.
Bind(supplied, default) == IF supplied = Unset THEN default ELSE supplied

\* Variant: __init__ forgets to store tag and force (they keep the default).
TaskInit_dropped(k, ctorArgs) ==
  [f \in Fields(k) |->
     IF f \in {"tag", "force", "all_layers"} THEN InitDefault(k, f)
     ELSE Bind(ctorArgs[f], InitDefault(k, f))]

\* __init__: every parameter is stored as the attribute of the same name.
TaskInit(k, ctorArgs) ==
  [f \in Fields(k) |-> Bind(ctorArgs[f], InitDefault(k, f))]

\* The wrapper installed by defaults_from_attrs: for each listed attribute,
\* kwargs.setdefault(attr, getattr(self, attr)).
defaults_from_attrs(k, slf, kwargs) ==
  [f \in Fields(k) |-> IF kwargs[f] = Unset THEN slf[f] ELSE kwargs[f]]

\* Binding of the keyword arguments the wrapper passes to the parameters of run.
BindRunArgs(k, kwargs) ==
  [f \in Fields(k) |-> Bind(kwargs[f], RunDefault(k, f))]

\* Python truth value of a str-or-None object ("not x" is its negation).
Truthy(v) == v \notin {None, ""}

\* Variant: the guards test "is None" instead of truthiness.
RequiredOK_isNone(k, a) ==
  CASE k = "ListImages" -> TRUE
    [] k = "PullImage" -> a["repository"] # None
    [] k = "PushImage" -> a["repository"] # None
    [] k = "RemoveImage" -> a["image"] # None
    [] k = "TagImage" -> a["image"] # None /\ a["repository"] # None

\* The guard in front of "raise ValueError" in each run (none in ListImages).
RequiredOK(k, a) ==
  CASE k = "ListImages" -> TRUE
    [] k = "PullImage" -> Truthy(a["repository"])
    [] k = "PushImage" -> Truthy(a["repository"])
    [] k = "RemoveImage" -> Truthy(a["image"])
    [] k = "TagImage" -> ~(~Truthy(a["image"]) \/ ~Truthy(a["repository"]))

\* docker.APIClient(base_url=docker_server_url)
APIClientArgs(k, a) == [base_url |-> a["docker_server_url"]]

\* Variant: the calls pass the attribute-independent literals for the optional
\* arguments (tag=None, force=False, all=False) instead of the parameters.
ClientCall_literals(k, a) ==
  CASE k = "ListImages" ->
         [method |-> "images",
          kw |-> [name |-> a["repository_name"], all |-> PyFalse]]
    [] k = "PullImage" ->
         [method |-> "pull",
          kw |-> [repository |-> a["repository"], tag |-> None]]
    [] k = "PushImage" ->
         [method |-> "push",
          kw |-> [repository |-> a["repository"], tag |-> None]]
    [] k = "RemoveImage" ->
         [method |-> "remove",
          kw |-> [image |-> a["image"], force |-> PyFalse]]
    [] k = "TagImage" ->
         [method |-> "tag",
          kw |-> [image |-> a["image"], repository |-> a["repository"],
                  tag |-> None, force |-> PyFalse]]

\* The client call that each run issues, with its keyword arguments.
ClientCall(k, a) ==
  CASE k = "ListImages" ->
         [method |-> "images",
          kw |-> [name |-> a["repository_name"], all |-> a["all_layers"]]]
    [] k = "PullImage" ->
         [method |-> "pull",
          kw |-> [repository |-> a["repository"], tag |-> a["tag"]]]
    [] k = "PushImage" ->
         [method |-> "push",
          kw |-> [repository |-> a["repository"], tag |-> a["tag"]]]
    [] k = "RemoveImage" ->
         [method |-> "remove",
          kw |-> [image |-> a["image"], force |-> a["force"]]]
    [] k = "TagImage" ->
         [method |-> "tag",
          kw |-> [image |-> a["image"], repository |-> a["repository"],
                  tag |-> a["tag"], force |-> a["force"]]]

\* Outcomes of a call: nothing yet, a returned value, or a raised exception.
NoOutcome == [type |-> "none", value |-> None]
Returned(v) == [type |-> "return", value |-> v]
Raised(e) == [type |-> "raise", value |-> e]

\* Variant: run catches the client's exception and raises its own.
RunOutcome_wrapped(k, co) ==
  IF co.type = "raise" THEN Raised("TaskError")
  ELSE IF k = "RemoveImage" THEN Returned(None) ELSE Returned(co.value)

\* Variant: ListImages returns the records in reverse order.
RunOutcome_reversed(k, co) ==
  IF co.type = "raise" THEN co
  ELSE IF k = "RemoveImage" THEN Returned(None)
  ELSE IF k = "ListImages"
    THEN Returned([i \in 1..Len(co.value) |-> co.value[Len(co.value) + 1 - i]])
  ELSE Returned(co.value)

\* What run does with the outcome of the client call: RemoveImage drops the
\* value (the call is a statement), the others return it; there is no
\* try/except, so an exception leaves run as it is.
RunOutcome(k, co) ==
  IF co.type = "raise" THEN co
  ELSE IF k = "RemoveImage" THEN Returned(None) ELSE Returned(co.value)

\* Variant: run stores its effective arguments back into the attributes.
SelfAfterRun_stored(k, slf, a) == a

\* The attributes of the task after a run with local arguments a: no run
\* assigns to self.
SelfAfterRun(k, slf, a) == slf

\* Variant: the client is constructed before the arguments are checked.
RunBody_clientFirst(k) ==
  IF k = "ListImages" THEN <<"client", "call">>
  ELSE <<"client", "check", "call">>

\* The statements of each run body in program order: "check" is the
\* if ... raise ValueError, "client" the docker.APIClient construction,
\* "call" the client call (returned, or for RemoveImage just executed).
RunBody(k) ==
  IF k = "ListImages" THEN <<"client", "call">>
  ELSE <<"check", "client", "call">>

\* Variant: a call that raised is issued a second time.
CallsIssued_retry(k, a, co) ==
  IF co.type = "raise" THEN <<ClientCall(k, a), ClientCall(k, a)>>
  ELSE <<ClientCall(k, a)>>

\* The client calls a run issues once it reaches its "call" statement and
\* the client answers with outcome co: the one call, never repeated.
CallsIssued(k, a, co) == <<ClientCall(k, a)>>

(***************************************************************************)
(* Inputs.                                                                 *)
(***************************************************************************)
\* Values a caller passes to a constructor.
CtorVals(f) ==
  CASE FieldType(f) = "bool" -> {PyTrue, PyFalse}
    [] FieldType(f) = "url" -> {TcpURL}
    [] OTHER -> {"", "a"}

\* Values a caller passes to run.  A caller that wants the attribute leaves
\* the argument out (Unset); None is never passed explicitly.
CallVals(f) ==
  CASE FieldType(f) = "bool" -> {PyTrue, PyFalse}
    [] FieldType(f) = "url" -> {"tcp://10.0.0.1:2375"}
    [] OTHER -> {"", "b"}

\* Values for the concurrent runs: the constructor's, and those of caller p.
ConcCtorVals(f) ==
  CASE FieldType(f) = "bool" -> {PyTrue}
    [] FieldType(f) = "url" -> {TcpURL}
    [] OTHER -> {"c"}

ConcCallVals(p, f) ==
  CASE FieldType(f) = "bool" -> {IF p = 1 THEN PyTrue ELSE PyFalse}
    [] FieldType(f) = "url" ->
         {IF p = 1 THEN "tcp://host1:2375" ELSE "tcp://host2:2375"}
    [] OTHER -> {IF p = 1 THEN "p1" ELSE "p2"}

Given(a) == {f \in DOMAIN a : a[f] # Unset}

\* Keyword-argument sets: each field unset or one of Vals(f), at most max set.
SeqCtorArgs(k) ==
  {a \in [Fields(k) -> {Unset, PyTrue, PyFalse, TcpURL, "", "a"}] :
     /\ \A f \in Fields(k) : a[f] = Unset \/ a[f] \in CtorVals(f)
     /\ Cardinality(Given(a)) <= MaxCtorArgs}

SeqCallArgs(k) ==
  {a \in [Fields(k) -> {Unset, PyTrue, PyFalse, "tcp://10.0.0.1:2375", "", "b"}] :
     /\ \A f \in Fields(k) : a[f] = Unset \/ a[f] \in CallVals(f)
     /\ Cardinality(Given(a)) <= MaxOverrides}

ConcCtorArgs(k) ==
  {a \in [Fields(k) -> {Unset, PyTrue, TcpURL, "c"}] :
     /\ \A f \in Fields(k) : a[f] = Unset \/ a[f] \in ConcCtorVals(f)
     /\ Cardinality(Given(a)) <= MaxCtorArgs}

ConcCallArgs(k, p) ==
  {a \in [Fields(k) -> {Unset} \cup UNION {ConcCallVals(p, f) : f \in Fields(k)}] :
     /\ \A f \in Fields(k) : a[f] = Unset \/ a[f] \in ConcCallVals(p, f)
     /\ Cardinality(Given(a)) <= MaxOverrides}

\* What docker.APIClient(...) can do: hand back a client, or raise (for
\* example on a base_url it cannot parse).
ConstructOutcomes == {Returned("client"), Raised("DockerException")}

\* What a client method can do: return a value of its kind, or raise.
ClientOutcomes(method) ==
  {Raised("APIError")} \cup
  CASE method = "images" ->
         {Returned(<<>>), Returned(<<"img1", "img2">>), Returned(<<"img2", "img1">>)}
    [] method = "pull" -> {Returned("pulled")}
    [] method = "push" -> {Returned("pushed")}
    [] method = "remove" -> {Returned("removed")}
    [] method = "tag" -> {Returned(PyTrue), Returned(PyFalse)}

(***************************************************************************)
(* State.                                                                  *)
(***************************************************************************)
VARIABLES
  kind,   \* the class of the task instance
  ctor,   \* the keyword arguments its constructor was called with
  self,   \* the attributes of the task instance
  self0,  \* the attributes as __init__ left them (history)
  inv,    \* per caller: the run invocation in progress
  started \* number of run invocations so far

vars == <<kind, ctor, self, self0, inv, started>>

Procs == {1}
ConcProcs == {1, 2}

NoArgs(k) == [f \in Fields(k) |-> Unset]

\* No invocation in progress: no arguments, no locals, nothing constructed,
\* nothing called.
IdleInv(k) ==
  [status |-> "idle", pc |-> 0, kwargs |-> NoArgs(k), args |-> NoArgs(k),
   clients |-> <<>>, calls |-> <<>>, collab |-> NoOutcome, outcome |-> NoOutcome]

InitWith(k, c, P) ==
  /\ kind = k
  /\ ctor = c
  /\ self = TaskInit(k, c)
  /\ self0 = TaskInit(k, c)
  /\ inv = [p \in P |-> IdleInv(k)]
  /\ started = 0

Init == \E k \in Kinds : \E c \in SeqCtorArgs(k) : InitWith(k, c, Procs)

InitConc == \E k \in Kinds : \E c \in ConcCtorArgs(k) : InitWith(k, c, ConcProcs)

Stmt(p) == RunBody(kind)[inv[p].pc]

Running(p, s) == inv[p].status = "running" /\ Stmt(p) = s

\* run leaves with outcome o (a return or an exception).
Leave(p, o, co, cl, cs) ==
  /\ inv' = [inv EXCEPT ![p] =
              [@ EXCEPT !.status = "done", !.pc = 0, !.outcome = o,
                        !.collab = co, !.clients = cl, !.calls = cs]]
  /\ self' = SelfAfterRun(kind, self, inv[p].args)

\* task.run(**kw): the wrapper fills in the attributes and enters run.
Invoke(p, kw) ==
  /\ inv[p].status = "idle"
  /\ started < MaxRuns
  /\ started' = started + 1
  /\ inv' = [inv EXCEPT ![p] =
              [@ EXCEPT !.status = "running", !.pc = 1, !.kwargs = kw,
                        !.args = BindRunArgs(kind,
                                   defaults_from_attrs(kind, self, kw))]]
  /\ UNCHANGED <<kind, ctor, self, self0>>

\* if not ...: raise ValueError(...)
Check(p) ==
  /\ Running(p, "check")
  /\ IF RequiredOK(kind, inv[p].args)
     THEN /\ inv' = [inv EXCEPT ![p].pc = @ + 1]
          /\ UNCHANGED self
     ELSE Leave(p, Raised("ValueError"), inv[p].collab, inv[p].clients, inv[p].calls)
  /\ UNCHANGED <<kind, ctor, self0, started>>

\* client = docker.APIClient(base_url=docker_server_url)
Construct(p, o) ==
  /\ Running(p, "client")
  /\ LET cl == Append(inv[p].clients, APIClientArgs(kind, inv[p].args))
     IN IF o.type = "return"
        THEN /\ inv' = [inv EXCEPT ![p].pc = @ + 1, ![p].clients = cl]
             /\ UNCHANGED self
        ELSE Leave(p, o, o, cl, inv[p].calls)
  /\ UNCHANGED <<kind, ctor, self0, started>>

\* [return] client.<method>(...)
Call(p, co) ==
  /\ Running(p, "call")
  /\ Len(inv[p].clients) > 0
  /\ Leave(p, RunOutcome(kind, co), co, inv[p].clients,
           inv[p].calls \o CallsIssued(kind, inv[p].args, co))
  /\ UNCHANGED <<kind, ctor, self0, started>>

\* The caller has the outcome; the invocation's locals are gone.
Return(p) ==
  /\ inv[p].status = "done"
  /\ inv' = [inv EXCEPT ![p] = IdleInv(kind)]
  /\ UNCHANGED <<kind, ctor, self, self0, started>>

Step(p) ==
  \/ Check(p)
  \/ \E o \in ConstructOutcomes : Construct(p, o)
  \/ Running(p, "call") /\
       \E co \in ClientOutcomes(ClientCall(kind, inv[p].args).method) : Call(p, co)
  \/ Return(p)

Next ==
  \E p \in Procs :
    \/ inv[p].status = "idle" /\ \E kw \in SeqCallArgs(kind) : Invoke(p, kw)
    \/ Step(p)

NextConc ==
  \E p \in ConcProcs :
    \/ inv[p].status = "idle" /\ \E kw \in ConcCallArgs(kind, p) : Invoke(p, kw)
    \/ Step(p)

Spec == Init /\ [][Next]_vars

SpecConc == InitConc /\ [][NextConc]_vars

(***************************************************************************)
(* Properties.                                                             *)
(***************************************************************************)
Done(p) == inv[p].status = "done"
Active(p) == inv[p].status # "idle"
ValueErrorRaised(p) == Done(p) /\ inv[p].outcome = Raised("ValueError")
ClientMade(p) == Len(inv[p].clients) > 0
CallMade(p) == Len(inv[p].calls) > 0

\* The name under which field f reaches the docker client.
ParamOf(f) ==
  CASE f = "repository_name" -> "name"
    [] f = "all_layers" -> "all"
    [] f = "docker_server_url" -> "base_url"
    [] OTHER -> f

\* Field f of invocation p has reached the client (constructor or call).
Reached(p, f) == IF f = "docker_server_url" THEN ClientMade(p) ELSE CallMade(p)

\* ... and the value the client received for it.
Delivered(p, f) ==
  IF f = "docker_server_url" THEN inv[p].clients[1].base_url
  ELSE inv[p].calls[1].kw[ParamOf(f)]

\* The effective value of field f in invocation p: the call-time value if one
\* was given, else the value the instance had after construction.
Effective(p, f) == IF inv[p].kwargs[f] # Unset THEN inv[p].kwargs[f] ELSE self0[f]

\* C1: a field given to the constructor and not given to run reaches the
\* client call (docker_server_url: the client construction) with the
\* constructor-time value.
C1_CtorValueDelegated ==
  \A p \in DOMAIN inv : \A f \in Fields(kind) :
    (ctor[f] # Unset /\ inv[p].kwargs[f] = Unset /\ Reached(p, f))
      => Delivered(p, f) = ctor[f]

C1_Witness ==
  \E p \in DOMAIN inv : \E f \in Fields(kind) \ {"docker_server_url"} :
    /\ ctor[f] # Unset /\ inv[p].kwargs[f] = Unset /\ CallMade(p)
    /\ ctor["docker_server_url"] # Unset
    /\ inv[p].kwargs["docker_server_url"] = Unset

\* C2: resolution is per field: a field given to run reaches the client with
\* the call-time value whatever the constructor-time value, and every field
\* of the same invocation not given to run reaches it with the value the
\* instance got at construction.
C2_PerFieldOverride ==
  \A p \in DOMAIN inv : \A f \in Fields(kind) :
    Reached(p, f) =>
      /\ inv[p].kwargs[f] # Unset => Delivered(p, f) = inv[p].kwargs[f]
      /\ (inv[p].kwargs[f] = Unset /\ Given(inv[p].kwargs) # {})
           => Delivered(p, f) = self0[f]

C2_Witness ==
  \E p \in DOMAIN inv : \E f, g \in Fields(kind) \ {"docker_server_url"} :
    /\ CallMade(p)
    /\ inv[p].kwargs[f] # Unset /\ ctor[f] # Unset /\ ctor[f] # inv[p].kwargs[f]
    /\ inv[p].kwargs[g] = Unset /\ ctor[g] # Unset

\* The required field of PullImage / PushImage / RemoveImage.
RequiredField(k) == IF k = "RemoveImage" THEN "image" ELSE "repository"

\* C3: PullImage / PushImage with an empty or unset effective repository, and
\* RemoveImage with an empty or unset effective image, end in ValueError, and
\* no client is constructed and no client call is made in that invocation.
C3_MissingRequiredFails ==
  \A p \in DOMAIN inv :
    (/\ kind \in {"PullImage", "PushImage", "RemoveImage"}
     /\ Active(p)
     /\ Effective(p, RequiredField(kind)) \in {None, ""})
      => /\ inv[p].clients = <<>>
         /\ inv[p].calls = <<>>
         /\ Done(p) => inv[p].outcome = Raised("ValueError")

C3_Witness ==
  \E p \in DOMAIN inv :
    /\ kind \in {"PullImage", "PushImage", "RemoveImage"}
    /\ ctor[RequiredField(kind)] = Unset
    /\ inv[p].kwargs[RequiredField(kind)] = Unset
    /\ ValueErrorRaised(p)

\* C4: TagImage ends in ValueError whenever the effective image or the
\* effective repository is empty or unset, with no client constructed and no
\* tag call; it raises ValueError only then (a missing tag never does), and
\* it calls tag only when both are non-empty.
C4_TagValidation ==
  \A p \in DOMAIN inv :
    (kind = "TagImage" /\ Active(p)) =>
      LET missing == \/ Effective(p, "image") \in {None, ""}
                     \/ Effective(p, "repository") \in {None, ""}
      IN /\ missing => inv[p].clients = <<>>
         /\ missing => inv[p].calls = <<>>
         /\ (missing /\ Done(p)) => inv[p].outcome = Raised("ValueError")
         /\ ValueErrorRaised(p) => missing
         /\ CallMade(p) => ~missing

C4_Witness ==
  \E p \in DOMAIN inv :
    /\ kind = "TagImage"
    /\ Effective(p, "image") \notin {None, ""}
    /\ Effective(p, "repository") = None
    /\ ValueErrorRaised(p)

\* C5: with no docker_server_url given to the constructor nor to run, a
\* constructed client has base URL unix:///var/run/docker.sock; with one
\* given, the client has the effective one (call-time before constructor-time).
C5_DefaultDaemonURL ==
  \A p \in DOMAIN inv :
    ClientMade(p) =>
      inv[p].clients[1].base_url =
        IF inv[p].kwargs["docker_server_url"] # Unset
          THEN inv[p].kwargs["docker_server_url"]
        ELSE IF ctor["docker_server_url"] # Unset
          THEN ctor["docker_server_url"]
        ELSE "unix:///var/run/docker.sock"

C5_Witness ==
  \E p \in DOMAIN inv :
    /\ ClientMade(p)
    /\ inv[p].kwargs["docker_server_url"] = Unset
    /\ ctor["docker_server_url"] = Unset
    /\ inv[p].clients[1].base_url = "unix:///var/run/docker.sock"

\* docker.APIClient(...) raised in invocation p: run ended on the client's
\* exception before any call was issued.
ConstructRaised(p) ==
  Done(p) /\ ClientMade(p) /\ inv[p].calls = <<>> /\ inv[p].collab.type = "raise"

NoFilterGiven(p) ==
  /\ ctor["repository_name"] = Unset
  /\ ctor["all_layers"] = Unset
  /\ inv[p].kwargs["repository_name"] = Unset
  /\ inv[p].kwargs["all_layers"] = Unset

\* What C6 says of a finished ListImages run, apart from the number of calls.
ListShape(p) ==
  /\ inv[p].outcome # Raised("ValueError")
  /\ Len(inv[p].clients) = 1
  /\ CallMade(p) =>
       /\ inv[p].calls[1].method = "images"
       /\ NoFilterGiven(p) =>
            inv[p].calls[1].kw = [name |-> None, all |-> PyFalse]
       /\ inv[p].collab.type = "return" =>
            inv[p].outcome = Returned(inv[p].collab.value)

\* C6 as stated: every finished ListImages run has constructed a client and
\* called images (exactly once), with name = None and all = False when no
\* filter was given, and returns the sequence the client returned.
C6_AlwaysCallsImages ==
  \A p \in DOMAIN inv :
    (kind = "ListImages" /\ Done(p)) => (ListShape(p) /\ Len(inv[p].calls) = 1)

\* C6, amended: ListImages.run never raises ValueError; every finished run has
\* attempted one client construction and, unless that construction raised,
\* has called images once (name = None, all = False when no filter was
\* given) and returns the sequence the client returned.
C6_ListDelegates ==
  \A p \in DOMAIN inv :
    (kind = "ListImages" /\ Done(p)) =>
      /\ ListShape(p)
      /\ IF ConstructRaised(p) THEN inv[p].calls = <<>>
         ELSE Len(inv[p].calls) = 1

C6_Witness ==
  \E p \in DOMAIN inv :
    /\ kind = "ListImages" /\ Done(p) /\ NoFilterGiven(p)
    /\ inv[p].calls = <<[method |-> "images", kw |-> [name |-> None, all |-> PyFalse]]>>
    /\ inv[p].outcome = Returned(<<"img2", "img1">>)

\* C7: a run that passed validation ends as the client did: an exception
\* raised by the client construction or by the client call is the exception
\* run raises; a value returned by the call is the value run returns, except
\* that RemoveImage returns None.
C7_OutcomeIsClientOutcome ==
  \A p \in DOMAIN inv :
    (Done(p) /\ ~ValueErrorRaised(p)) =>
      IF inv[p].collab.type = "raise" THEN inv[p].outcome = inv[p].collab
      ELSE IF kind = "RemoveImage" THEN inv[p].outcome = Returned(None)
      ELSE /\ inv[p].collab.type = "return"
           /\ inv[p].outcome = Returned(inv[p].collab.value)

C7_Witness ==
  \E p \in DOMAIN inv :
    /\ Done(p) /\ CallMade(p)
    /\ inv[p].collab = Raised("APIError")
    /\ inv[p].outcome = Raised("APIError")

\* The fields each run checks before it constructs the client.
RequiredFields(k) ==
  CASE k = "ListImages" -> {}
    [] k = "TagImage" -> {"image", "repository"}
    [] OTHER -> {RequiredField(k)}

\* What C8 says apart from the counts of a run that passed validation: never
\* more than one client or call; none of either after ValueError; a call only
\* after a client, a client only after the required fields were found set.
AtMostOnce(p) ==
  /\ Len(inv[p].clients) <= 1
  /\ Len(inv[p].calls) <= 1
  /\ ValueErrorRaised(p) => (inv[p].clients = <<>> /\ inv[p].calls = <<>>)
  /\ CallMade(p) => ClientMade(p)
  /\ ClientMade(p) =>
       \A f \in RequiredFields(kind) : Effective(p, f) \notin {None, ""}

\* C8 as stated: ... and a finished run that passed validation has constructed
\* exactly one client and issued exactly one call.
C8_ExactlyOneCall ==
  \A p \in DOMAIN inv :
    /\ AtMostOnce(p)
    /\ (Done(p) /\ ~ValueErrorRaised(p)) =>
         (Len(inv[p].clients) = 1 /\ Len(inv[p].calls) = 1)

\* C8, amended: at most one client call per invocation; a finished run that
\* passed validation has attempted exactly one client construction and has
\* issued exactly one call if the construction succeeded, none if it raised;
\* a run that failed validation has done neither; a call that raised is not
\* issued again.
C8_AtMostOneCall ==
  \A p \in DOMAIN inv :
    /\ AtMostOnce(p)
    /\ (Done(p) /\ ~ValueErrorRaised(p)) =>
         /\ Len(inv[p].clients) = 1
         /\ IF ConstructRaised(p) THEN inv[p].calls = <<>>
            ELSE Len(inv[p].calls) = 1

C8_Witness ==
  \E p \in DOMAIN inv :
    /\ Done(p) /\ inv[p].outcome = Raised("APIError")
    /\ Len(inv[p].clients) = 1 /\ Len(inv[p].calls) = 1

\* C9: with two invocations of one task in flight, interleaved in any way,
\* each client is constructed with its own invocation's effective
\* docker_server_url and each call receives its own invocation's effective
\* values; no str or URL value given to the other invocation reaches it.
C9_NoInterference ==
  \A p \in DOMAIN inv : \A f \in Fields(kind) :
    Reached(p, f) =>
      /\ Delivered(p, f) = Effective(p, f)
      /\ \A q \in DOMAIN inv \ {p} :
           (FieldType(f) # "bool" /\ inv[q].kwargs[f] # Unset)
             => Delivered(p, f) # inv[q].kwargs[f]

C9_Witness ==
  /\ DOMAIN inv = {1, 2}
  /\ \A p \in {1, 2} : inv[p].status = "running" /\ ClientMade(p)
  /\ inv[1].kwargs # inv[2].kwargs
  /\ inv[1].kwargs["docker_server_url"] # Unset
  /\ inv[2].kwargs["docker_server_url"] # Unset
  /\ inv[1].clients # inv[2].clients

\* C10: run never changes the attributes: whatever invocations were made and
\* however they ended, the attributes are those set by __init__, so an
\* invocation without call-time values runs with exactly those.
C10_AttributesUnchanged ==
  /\ self = self0
  /\ \A p \in DOMAIN inv :
       (Active(p) /\ Given(inv[p].kwargs) = {}) => inv[p].args = self0

C10_Witness ==
  /\ started >= 2
  /\ \E p \in DOMAIN inv :
       Done(p) /\ Given(inv[p].kwargs) = {} /\ inv[p].args = self0

====
